---------------------------- MODULE Spec2Model ----------------------------
(***************************************************************************)
(* A model of the App screen of src/App.tsx: the one-second clock          *)
(* interval, the weather refresh effect (fetchWeather with its abort       *)
(* timer), the battery effect (initBattery and its listeners) and the pure *)
(* derivations of the render tree (NetworkIndicator, BatteryIcon,          *)
(* formatBatteryPercent, WeatherSummary).                                  *)
(*                                                                         *)
(* Time is in milliseconds, as in the source.  The event loop is modelled  *)
(* as a discrete-event system: a timer callback runs at the instant it is  *)
(* due, time never passes a due timer, and network events (response,       *)
(* rejection, body parsed) may happen at any instant.                      *)
(*                                                                         *)
(* An optional value (T | null) is the empty sequence Null or <<v>>.       *)
(***************************************************************************)
EXTENDS Integers, Sequences, FiniteSets, TLC

VARIABLES
    phase,            \* "rendered" (before the effects ran), "mounted", "torndown"
    time,             \* the wall clock, ms since the first render
    now,              \* useState now: the stored instant
    clockInterval,    \* the clock setInterval: Null (none, cleared) or <<due time>>
    weatherInterval,  \* the weather refresh setInterval: Null or <<due time>>
    weather,          \* useState weather: Null or <<WeatherApiResponse>>
    weatherLoading,   \* useState weatherLoading
    weatherError,     \* useState weatherError: Null or <<message>>
    started,          \* number of fetchWeather calls made so far
    attempts,         \* the fetchWeather calls in flight: id -> frame
    completed,        \* history: the call that resolved in the last step, or Null
    netInfo,          \* useNetInfo(): the NetworkObservation
    netView,          \* what NetworkIndicator rendered last, or Null
    power,            \* useState power: Null or <<PowerState>>
    batteryView,      \* what the battery header rendered last, or Null
    summary,          \* what WeatherSummary rendered last, or Null
    batteryInit,      \* initBattery: "idle", "reading" (awaiting the first read), "done", "threw"
    batteryLevelListener, \* the battery effect's local: Null or <<subscription>>
    batteryStateListener, \* the battery effect's local: Null or <<subscription>>
    listeners,        \* the subscriptions registered with the battery module
    pendingReads,     \* per listener, its callback's getPowerStateAsync calls in flight
    batteryEvents     \* number of battery events delivered so far

vars == <<phase, time, now, clockInterval, weatherInterval, weather,
          weatherLoading, weatherError, started, attempts, completed,
          netInfo, netView, power, batteryView, summary,
          batteryInit, batteryLevelListener, batteryStateListener, listeners,
          pendingReads, batteryEvents>>

timerVars   == <<phase, time, now, clockInterval, weatherInterval>>
weatherVars == <<weather, weatherLoading, weatherError, started, attempts, completed>>
renderVars  == <<netInfo, netView, power, batteryView, summary>>
batteryVars == <<batteryInit, batteryLevelListener, batteryStateListener,
                 listeners, pendingReads, batteryEvents>>

Null == <<>>

Min(S) == CHOOSE m \in S : \A n \in S : m <= n
Max(S) == CHOOSE m \in S : \A n \in S : m >= n

(***************************************************************************)
(* Program constants.                                                      *)
(***************************************************************************)
ClockMs == 1000
TimeoutMs == 10000
RefreshMs == 15 * 60 * 1000

(***************************************************************************)
(* Bounds of the model.                                                    *)
(***************************************************************************)
MaxAttempts == 2

\* The last instant the model lets the clock reach: the last attempt the
\* bound allows can still run into its abort timer.
Horizon == (MaxAttempts - 1) * RefreshMs + TimeoutMs

(***************************************************************************)
(* The weather responses the server sends in the timed model.              *)
(***************************************************************************)
MkWeather(ctime, ctemp, cprob, htime, htemp, hprob) ==
    [current |-> [time |-> ctime, temperature_2m |-> ctemp,
                  precipitation_probability |-> cprob],
     hourly  |-> [time |-> htime, temperature_2m |-> htemp,
                  precipitation_probability |-> hprob]]

ServerResponses ==
    { MkWeather(10, 60, 5, <<10, 11>>, <<60, 65>>, <<5, 40>>),
      MkWeather(11, 65, 40, <<10, 11>>, <<60, 65>>, <<5, 40>>) }

\* The HTTP statuses the server answers with; response.ok is status in 200..299.
Statuses == {200, 500}
ResponseOk(status) == status >= 200 /\ status <= 299

\* error.message of the errors fetchWeather catches.  The first is built by
\* the source; the others are the platform's messages for a rejected fetch,
\* an aborted fetch and a body that does not parse.
HttpErrorMessage(status) == "HTTP error! status: " \o ToString(status)
NetworkErrorMessage == "Network request failed"
AbortErrorMessage == "Aborted"
ParseErrorMessage == "JSON Parse error"

(***************************************************************************)
(* fetchWeather.  A frame of `attempts` is one call in flight:             *)
(*   stage          "fetching" (awaiting fetch) or "parsing" (awaiting     *)
(*                  response.json())                                       *)
(*   timeoutId      the abort timer: Null (cleared) or <<due time>>        *)
(*   startedAt      history: the instant of the call                       *)
(*   weatherAtStart history: the stored snapshot when the call was made    *)
(***************************************************************************)
InFlight == DOMAIN attempts

Without(id) == [i \in InFlight \ {id} |-> attempts[i]]

Completion(id, outcome, response) ==
    <<[id |-> id, outcome |-> outcome, response |-> response,
       startedAt |-> attempts[id].startedAt,
       weatherAtStart |-> attempts[id].weatherAtStart]>>

\* StartFetch, had it raised the loading flag on every call.
StartFetchShowsLoading(id) ==
    /\ weatherError' = Null
    /\ weatherLoading' = TRUE
    /\ attempts' = [i \in InFlight \cup {id} |->
                      IF i = id
                      THEN [stage |-> "fetching",
                            timeoutId |-> <<time + TimeoutMs>>,
                            startedAt |-> time,
                            weatherAtStart |-> weather]
                      ELSE attempts[i]]
    /\ started' = started + 1
    /\ completed' = Null
    /\ UNCHANGED weather

\* Lines 173-180: the synchronous head of a call, up to the await of fetch.
StartFetch(id) ==
    /\ weatherError' = Null
    /\ attempts' = [i \in InFlight \cup {id} |->
                      IF i = id
                      THEN [stage |-> "fetching",
                            timeoutId |-> <<time + TimeoutMs>>,
                            startedAt |-> time,
                            weatherAtStart |-> weather]
                      ELSE attempts[i]]
    /\ started' = started + 1
    /\ completed' = Null
    /\ UNCHANGED <<weather, weatherLoading>>

\* A thrown value: what `error instanceof Error` and error.message read.
ErrorOf(message) == [instanceOfError |-> TRUE, message |-> message]

\* Lines 189-197: the catch block, then the finally block.
Catch(id, error) ==
    /\ weatherError' = IF error.instanceOfError THEN <<error.message>> ELSE weatherError
    /\ weatherLoading' = FALSE
    /\ attempts' = Without(id)
    /\ completed' = Completion(id, "failed", Null)
    /\ UNCHANGED <<weather, started>>

\* Lines 180-187: fetch resolved with a response of the given status.
FetchResponse(id, status) ==
    /\ id \in InFlight
    /\ attempts[id].stage = "fetching"
    /\ IF ResponseOk(status)
       THEN /\ attempts' = [attempts EXCEPT ![id].stage = "parsing",
                                            ![id].timeoutId = Null]
            /\ completed' = Null
            /\ UNCHANGED <<weather, weatherLoading, weatherError, started>>
       ELSE Catch(id, ErrorOf(HttpErrorMessage(status)))
    /\ UNCHANGED <<timerVars, renderVars, batteryVars>>

\* Line 180: fetch rejected (no connection, DNS, reset).
FetchReject(id) ==
    /\ id \in InFlight
    /\ attempts[id].stage = "fetching"
    /\ Catch(id, ErrorOf(NetworkErrorMessage))
    /\ UNCHANGED <<timerVars, renderVars, batteryVars>>

\* Line 178: the abort timer is due; controller.abort() rejects the fetch.
AbortFire(id) ==
    /\ id \in InFlight
    /\ attempts[id].timeoutId = <<time>>
    /\ Catch(id, ErrorOf(AbortErrorMessage))
    /\ UNCHANGED <<timerVars, renderVars, batteryVars>>

\* Lines 187-188, 196: response.json() resolved with the parsed body.
JsonResolve(id, data) ==
    /\ id \in InFlight
    /\ attempts[id].stage = "parsing"
    /\ weather' = <<data>>
    /\ weatherLoading' = FALSE
    /\ attempts' = Without(id)
    /\ completed' = Completion(id, "ok", <<data>>)
    /\ UNCHANGED <<weatherError, started>>
    /\ UNCHANGED <<timerVars, renderVars, batteryVars>>

\* Line 187: response.json() rejected (the body broke off or does not parse).
JsonReject(id) ==
    /\ id \in InFlight
    /\ attempts[id].stage = "parsing"
    /\ Catch(id, ErrorOf(ParseErrorMessage))
    /\ UNCHANGED <<timerVars, renderVars, batteryVars>>

(***************************************************************************)
(* The battery effect (lines 132-163).  initBattery awaits the first read  *)
(* of the power state, stores it and registers the two listeners in the    *)
(* effect's locals; a listener's callback reads the power state again and  *)
(* stores it; the cleanup removes the listeners its locals hold.           *)
(***************************************************************************)
\* Bound of the number of battery events delivered.
MaxBatteryEvents == 3

\* What Battery.getPowerStateAsync() resolves with in the lifecycle model.
DevicePowerStates ==
    { [batteryLevel |-> 50, batteryState |-> "UNPLUGGED"],
      [batteryLevel |-> 51, batteryState |-> "CHARGING"],
      [batteryLevel |-> 100, batteryState |-> "FULL"] }

\* The two subscriptions of lines 142 and 148.
Subscriptions == {"level", "state"}

\* Lines 133-134 before the effect ran: nothing registered, nothing read.
BatteryIdle ==
    /\ batteryInit = "idle"
    /\ batteryLevelListener = Null
    /\ batteryStateListener = Null
    /\ listeners = {}
    /\ pendingReads = [l \in Subscriptions |-> 0]
    /\ batteryEvents = 0

\* Lines 133-138 and 157: the effect declares its locals and calls
\* initBattery, which suspends at the await of the first read.
StartInitBattery ==
    /\ batteryInit' = "reading"
    /\ batteryLevelListener' = Null
    /\ batteryStateListener' = Null
    /\ UNCHANGED <<listeners, pendingReads, batteryEvents>>

\* Lines 159-162: batteryLevelListener?.remove(); batteryStateListener?.remove().
RemoveBatteryListeners ==
    /\ listeners' = listeners \ {l[1] : l \in {batteryLevelListener, batteryStateListener} \ {Null}}
    /\ UNCHANGED <<batteryInit, batteryLevelListener, batteryStateListener,
                   pendingReads, batteryEvents>>

\* Lines 138-151: the first read resolved; the state is stored and both
\* listeners are registered.
InitBatteryResolve(state) ==
    /\ batteryInit = "reading"
    /\ power' = <<state>>
    /\ batteryLevelListener' = <<"level">>
    /\ batteryStateListener' = <<"state">>
    /\ listeners' = listeners \cup Subscriptions
    /\ batteryInit' = "done"
    /\ UNCHANGED <<pendingReads, batteryEvents>>
    /\ UNCHANGED <<timerVars, weatherVars, netInfo, netView, batteryView, summary>>

\* Lines 138 and 152-154: the first read rejected; the error is logged.
InitBatteryReject ==
    /\ batteryInit = "reading"
    /\ batteryInit' = "threw"
    /\ UNCHANGED <<batteryLevelListener, batteryStateListener, listeners,
                   pendingReads, batteryEvents>>
    /\ UNCHANGED <<timerVars, weatherVars, renderVars>>

\* Lines 142-143 and 148-149: the battery module delivers an event to a
\* registered listener, whose callback starts a read of the power state.
BatteryEvent(l) ==
    /\ l \in listeners
    /\ batteryEvents < MaxBatteryEvents
    /\ batteryEvents' = batteryEvents + 1
    /\ pendingReads' = [pendingReads EXCEPT ![l] = @ + 1]
    /\ UNCHANGED <<batteryInit, batteryLevelListener, batteryStateListener, listeners>>
    /\ UNCHANGED <<timerVars, weatherVars, renderVars>>

\* Lines 143-144 and 149-150: a callback's read resolved; the state is stored.
ListenerReadResolve(l, state) ==
    /\ pendingReads[l] > 0
    /\ pendingReads' = [pendingReads EXCEPT ![l] = @ - 1]
    /\ power' = <<state>>
    /\ UNCHANGED <<batteryInit, batteryLevelListener, batteryStateListener,
                   listeners, batteryEvents>>
    /\ UNCHANGED <<timerVars, weatherVars, netInfo, netView, batteryView, summary>>

\* Lines 143 and 149: a callback's read rejected; nothing is stored.
ListenerReadReject(l) ==
    /\ pendingReads[l] > 0
    /\ pendingReads' = [pendingReads EXCEPT ![l] = @ - 1]
    /\ UNCHANGED <<batteryInit, batteryLevelListener, batteryStateListener,
                   listeners, batteryEvents>>
    /\ UNCHANGED <<timerVars, weatherVars, renderVars>>

(***************************************************************************)
(* The effects of App and the timers.                                      *)
(***************************************************************************)
\* Lines 132-157, 165-166 and 171-203: the battery effect, the clock effect
\* and the weather effect run.
Mount ==
    /\ phase = "rendered"
    /\ phase' = "mounted"
    /\ clockInterval' = <<time + ClockMs>>
    /\ StartFetch(started + 1)
    /\ weatherInterval' = <<time + RefreshMs>>
    /\ StartInitBattery
    /\ UNCHANGED <<time, now, renderVars>>

\* Line 166: the clock interval's callback, setNow(new Date()).
ClockTick ==
    /\ clockInterval = <<time>>
    /\ now' = time
    /\ clockInterval' = <<time + ClockMs>>
    /\ completed' = Null
    /\ UNCHANGED <<phase, time, weatherInterval, renderVars, batteryVars>>
    /\ UNCHANGED <<weather, weatherLoading, weatherError, started, attempts>>

\* Line 203: the refresh interval's callback, fetchWeather.
WeatherIntervalFire ==
    /\ weatherInterval = <<time>>
    /\ StartFetch(started + 1)
    /\ weatherInterval' = <<time + RefreshMs>>
    /\ UNCHANGED <<phase, time, now, clockInterval, renderVars, batteryVars>>

\* Teardown, had the weather effect returned no cleanup.
TeardownKeepsRefresh ==
    /\ phase = "mounted"
    /\ phase' = "torndown"
    /\ clockInterval' = Null
    /\ completed' = Null
    /\ RemoveBatteryListeners
    /\ UNCHANGED <<time, now, weatherInterval, renderVars>>
    /\ UNCHANGED <<weather, weatherLoading, weatherError, started, attempts>>

\* Lines 159-162, 167 and 204: the cleanups of the three effects.
Teardown ==
    /\ phase = "mounted"
    /\ phase' = "torndown"
    /\ clockInterval' = Null
    /\ weatherInterval' = Null
    /\ completed' = Null
    /\ RemoveBatteryListeners
    /\ UNCHANGED <<time, now, renderVars>>
    /\ UNCHANGED <<weather, weatherLoading, weatherError, started, attempts>>

\* The due times of the armed timers.
DueTimers ==
    { t[1] : t \in ({clockInterval, weatherInterval}
                    \cup {attempts[i].timeoutId : i \in InFlight}) \ {Null} }

\* Time passes up to the next due timer (with no timer armed, by one refresh
\* period); it never passes a timer that is due.
Advance ==
    /\ phase # "rendered"
    /\ LET target == Min(DueTimers \cup {time + RefreshMs})
       IN  /\ target > time
           /\ target <= Horizon
           /\ time' = target
    /\ completed' = Null
    /\ UNCHANGED <<phase, now, clockInterval, weatherInterval, renderVars, batteryVars>>
    /\ UNCHANGED <<weather, weatherLoading, weatherError, started, attempts>>

Init ==
    /\ phase = "rendered"
    /\ time = 0
    /\ now = 0
    /\ clockInterval = Null
    /\ weatherInterval = Null
    /\ weather = Null
    /\ weatherLoading = TRUE
    /\ weatherError = Null
    /\ started = 0
    /\ attempts = <<>>
    /\ completed = Null
    /\ netInfo = Null
    /\ netView = Null
    /\ power = Null
    /\ batteryView = Null
    /\ summary = Null
    /\ BatteryIdle

Next ==
    \/ Mount
    \/ ClockTick
    \/ WeatherIntervalFire
    \/ Teardown
    \/ Advance
    \/ \E id \in 1..started, status \in Statuses : FetchResponse(id, status)
    \/ \E id \in 1..started : FetchReject(id)
    \/ \E id \in 1..started : AbortFire(id)
    \/ \E id \in 1..started, data \in ServerResponses : JsonResolve(id, data)
    \/ \E id \in 1..started : JsonReject(id)

Spec == Init /\ [][Next]_vars

(***************************************************************************)
(* The lifecycle of the battery effect.  The effect shares no state with   *)
(* the clock and the weather effects (it reads and writes only its locals, *)
(* the battery module's registry and the power slot), so its interleavings *)
(* with mount and teardown are explored with the clock standing still.     *)
(***************************************************************************)
NextLifecycle ==
    \/ Mount
    \/ Teardown
    \/ \E state \in DevicePowerStates : InitBatteryResolve(state)
    \/ InitBatteryReject
    \/ \E l \in Subscriptions : BatteryEvent(l)
    \/ \E l \in Subscriptions, state \in DevicePowerStates : ListenerReadResolve(l, state)
    \/ \E l \in Subscriptions : ListenerReadReject(l)

SpecLifecycle == Init /\ [][NextLifecycle]_vars

(***************************************************************************)
(* The pure derivations of the render tree.  Math.round(n / d) for an      *)
(* integer n and d > 0 rounds halves up: floor(n / d + 1/2).               *)
(***************************************************************************)
MathRound(n, d) == (2 * n + d) \div (2 * d)
MathMax(a, b) == IF a >= b THEN a ELSE b
MathMin(a, b) == IF a <= b THEN a ELSE b

\* Opacities, in hundredths: 1 and 0.45.
FullOpacity == 100
DimOpacity == 45

(***************************************************************************)
(* NetworkIndicator.  A NetworkObservation is                              *)
(*   [type, isConnected, isInternetReachable, strength, signalStrength]    *)
(* with isConnected, isInternetReachable: Null | <<BOOLEAN>> and           *)
(* strength (details.strength), signalStrength (details.signalStrength):   *)
(* Null | <<integer>>.                                                     *)
(***************************************************************************)
\* Line 252.
Connected(net) ==
    net.isConnected = <<TRUE>> /\ net.isInternetReachable # <<FALSE>>

\* Line 256.
WifiLevel(wifiStrength) ==
    IF wifiStrength # Null
    THEN MathMax(0, MathMin(3, MathRound(wifiStrength[1], 34)))
    ELSE 0

\* CellLevel, had it truncated where the source rounds.
CellLevelTruncating(cellStrength) ==
    IF cellStrength = Null THEN 0
    ELSE LET v == cellStrength[1]
         IN  IF v >= 0 /\ v <= 100
             THEN MathMax(0, MathMin(4, (v * 4) \div 100))
             ELSE IF v >= -140 /\ v <= -44
                  THEN MathMax(0, MathMin(4, ((v + 140) * 4) \div (-44 + 140)))
                  ELSE 2

\* Lines 259-275.
CellLevel(cellStrength) ==
    IF cellStrength = Null THEN 0
    ELSE LET v == cellStrength[1]
         IN  IF v >= 0 /\ v <= 100
             THEN MathMax(0, MathMin(4, MathRound(v * 4, 100)))
             ELSE IF v >= -140 /\ v <= -44
                  THEN MathMax(0, MathMin(4, MathRound((v + 140) * 4, -44 + 140)))
                  ELSE 2

\* CellBarOpacity, had it lit every bar below the level whatever the radio.
CellBarOpacityOfLevelOnly(cellActive, i, cellLevel) ==
    IF i < cellLevel THEN FullOpacity ELSE DimOpacity

\* Lines 286-287: the opacity of the bar with index i (0..3).
CellBarOpacity(cellActive, i, cellLevel) ==
    LET on == i < cellLevel
    IN  IF cellActive THEN (IF on THEN FullOpacity ELSE DimOpacity) ELSE DimOpacity

\* Lines 250-303.
NetworkIndicator(net) ==
    LET type == net.type
        connected == Connected(net)
        wifiLevel == WifiLevel(net.strength)
        cellLevel == CellLevel(net.signalStrength)
        wifiActive == connected /\ type = "wifi"
        cellActive == connected /\ type # "wifi" /\ type # "unknown" /\ type # "none"
    IN  [wifiLevel |-> wifiLevel,
         cellLevel |-> cellLevel,
         wifiActive |-> wifiActive,
         cellActive |-> cellActive,
         bars |-> [i \in 0..3 |-> CellBarOpacity(cellActive, i, cellLevel)],
         outerOpacity |-> IF wifiActive
                          THEN (IF wifiLevel >= 3 THEN FullOpacity ELSE DimOpacity)
                          ELSE DimOpacity,
         midOpacity |-> IF wifiActive
                        THEN (IF wifiLevel >= 2 THEN FullOpacity ELSE DimOpacity)
                        ELSE DimOpacity,
         dotOpacity |-> IF wifiActive
                        THEN (IF wifiLevel >= 1 THEN FullOpacity ELSE DimOpacity)
                        ELSE DimOpacity]

\* Bound of the raw signal values tried: -SignalBound..SignalBound, and 500.
SignalBound == 145

NetTypes == {"wifi", "cellular", "ethernet", "none", "unknown"}
Tristate == {Null, <<TRUE>>, <<FALSE>>}
SignalValues == {Null} \cup {<<v>> : v \in (-SignalBound..SignalBound) \cup {500}}
WifiStrengths == {Null, <<17>>, <<100>>}

NetworkObservations ==
    [type : NetTypes, isConnected : Tristate, isInternetReachable : Tristate,
     strength : WifiStrengths, signalStrength : SignalValues]

\* Line 220: App renders NetworkIndicator with the current observation.
RenderNetworkIndicator ==
    /\ netInfo # Null
    /\ netView = Null
    /\ netView' = <<NetworkIndicator(netInfo[1])>>
    /\ UNCHANGED <<batteryVars, timerVars, weatherVars, netInfo, power, batteryView, summary>>

InitNetwork ==
    /\ phase = "rendered"
    /\ time = 0
    /\ now = 0
    /\ clockInterval = Null
    /\ weatherInterval = Null
    /\ weather = Null
    /\ weatherLoading = TRUE
    /\ weatherError = Null
    /\ started = 0
    /\ attempts = <<>>
    /\ completed = Null
    /\ \E o \in NetworkObservations : netInfo = <<o>>
    /\ netView = Null
    /\ power = Null
    /\ batteryView = Null
    /\ summary = Null
    /\ BatteryIdle

NextNetwork == RenderNetworkIndicator

SpecNetwork == InitNetwork /\ [][NextNetwork]_vars

(***************************************************************************)
(* The battery header.  batteryLevel is in hundredths (LevelScale is 1.0), *)
(* so -1, the level of an unknown battery, is -LevelScale.                 *)
(***************************************************************************)
LevelScale == 100

\* The placeholder of an unknown level (the source's dash is an em dash).
Placeholder == "-%"

\* Lines 346-349.
formatBatteryPercent(pw) ==
    IF pw = Null \/ pw[1].batteryLevel < 0
    THEN Placeholder
    ELSE ToString(MathRound(pw[1].batteryLevel * 100, LevelScale)) \o "%"

\* BatteryIcon, had it not clamped the level.
BatteryIconUnclamped(level, charging) ==
    LET clamped == IF level >= 0 THEN level ELSE -LevelScale
        innerPx == 20
    IN  [fillPx |-> IF clamped >= 0 THEN MathRound(innerPx * clamped, LevelScale) ELSE 0]

\* Lines 351-357.
BatteryIcon(level, charging) ==
    LET clamped == IF level >= 0
                   THEN MathMax(0, MathMin(LevelScale, level))
                   ELSE -LevelScale
        innerPx == 20
    IN  [fillPx |-> IF clamped >= 0 THEN MathRound(innerPx * clamped, LevelScale) ELSE 0]

\* Bound of the raw levels tried, in hundredths: -BatteryBound..BatteryBound.
BatteryBound == 150

BatteryStates == {"UNKNOWN", "UNPLUGGED", "CHARGING", "FULL"}
PowerStates ==
    [batteryLevel : -BatteryBound..BatteryBound, batteryState : BatteryStates]

\* Lines 222-223: the header renders the icon and the percentage text.
RenderBattery ==
    /\ batteryView = Null
    /\ LET level == IF power # Null THEN power[1].batteryLevel ELSE -LevelScale
           charging == power # Null /\ power[1].batteryState = "CHARGING"
       IN  batteryView' = <<[fillPx |-> BatteryIcon(level, charging).fillPx,
                             text |-> formatBatteryPercent(power)]>>
    /\ UNCHANGED <<batteryVars, timerVars, weatherVars, netInfo, netView, power, summary>>

InitBattery ==
    /\ phase = "rendered"
    /\ time = 0
    /\ now = 0
    /\ clockInterval = Null
    /\ weatherInterval = Null
    /\ weather = Null
    /\ weatherLoading = TRUE
    /\ weatherError = Null
    /\ started = 0
    /\ attempts = <<>>
    /\ completed = Null
    /\ netInfo = Null
    /\ netView = Null
    /\ \/ power = Null
       \/ \E ps \in PowerStates : power = <<ps>>
    /\ batteryView = Null
    /\ summary = Null
    /\ BatteryIdle

NextBattery == RenderBattery

SpecBattery == InitBattery /\ [][NextBattery]_vars

(***************************************************************************)
(* WeatherSummary.  Array indices are the source's, from 0; a timestamp is *)
(* the number of its hour (a timestamp off the hourly grid is a number     *)
(* that is not in the series).                                             *)
(***************************************************************************)
\* Array.prototype.findIndex with t => t === x.
FindIndex(arr, x) ==
    IF \E i \in 1..Len(arr) : arr[i] = x
    THEN Min({i \in 1..Len(arr) : arr[i] = x}) - 1
    ELSE -1

\* Array.prototype.slice(start): a negative start counts from the end.
Slice(arr, start) ==
    LET from == IF start < 0 THEN MathMax(Len(arr) + start, 0)
                ELSE MathMin(start, Len(arr))
    IN  SubSeq(arr, from + 1, Len(arr))

\* Line 394.
NextHourIndex(w) ==
    LET currentIndex == FindIndex(w.hourly.time, w.current.time)
    IN  IF currentIndex # -1 THEN currentIndex + 1 ELSE -1

\* IsRising, had it compared with >=.
IsRisingOrEqual(w) ==
    LET nextHourIndex == NextHourIndex(w)
    IN  /\ nextHourIndex # -1
        /\ nextHourIndex < Len(w.hourly.temperature_2m)
        /\ w.hourly.temperature_2m[nextHourIndex + 1] >= w.current.temperature_2m

\* Line 395: an index past the end reads undefined, and undefined > x is false.
IsRising(w) ==
    LET nextHourIndex == NextHourIndex(w)
    IN  /\ nextHourIndex # -1
        /\ nextHourIndex < Len(w.hourly.temperature_2m)
        /\ w.hourly.temperature_2m[nextHourIndex + 1] > w.current.temperature_2m

\* Lines 398-399.
MaxPrecipitation(w) ==
    LET restOfDayProbs == Slice(w.hourly.precipitation_probability, NextHourIndex(w))
    IN  IF Len(restOfDayProbs) > 0
        THEN Max({restOfDayProbs[i] : i \in 1..Len(restOfDayProbs)})
        ELSE w.current.precipitation_probability

\* Lines 385-432.
WeatherSummary(w) ==
    [isRising |-> IsRising(w), maxPrecipitation |-> MaxPrecipitation(w)]

\* Bound of the length of the hourly series.
MaxHours == 3

Temperatures == {59, 60, 61}
Probabilities == {0, 30, 70}

\* A response tried: an index-aligned hourly series of the hours 1..n, and a
\* current observation at an hour of the series or off it (0, n + 1).
SummaryInput(n, ctime, cprob, htemp, hprob) ==
    MkWeather(ctime, 60, cprob, [i \in 1..n |-> i], htemp, hprob)

\* Line 234: the summary renders once loading is over and a snapshot is stored.
RenderWeatherSummary ==
    /\ ~weatherLoading
    /\ weather # Null
    /\ summary = Null
    /\ summary' = <<WeatherSummary(weather[1])>>
    /\ UNCHANGED <<batteryVars, timerVars, weatherVars, netInfo, netView, power, batteryView>>

InitSummary ==
    /\ phase = "rendered"
    /\ time = 0
    /\ now = 0
    /\ clockInterval = Null
    /\ weatherInterval = Null
    /\ \E n \in 0..MaxHours :
         \E ctime \in 0..(n + 1), cprob \in {10, 30},
            htemp \in [1..n -> Temperatures], hprob \in [1..n -> Probabilities] :
            weather = <<SummaryInput(n, ctime, cprob, htemp, hprob)>>
    /\ weatherLoading = FALSE
    /\ weatherError = Null
    /\ started = 0
    /\ attempts = <<>>
    /\ completed = Null
    /\ netInfo = Null
    /\ netView = Null
    /\ power = Null
    /\ batteryView = Null
    /\ summary = Null
    /\ BatteryIdle

NextSummary == RenderWeatherSummary

SpecSummary == InitSummary /\ [][NextSummary]_vars

(***************************************************************************)
(* Claims about the weather refresh and the timers, under Spec.            *)
(***************************************************************************)
Failed == completed # Null /\ completed[1].outcome = "failed"
Succeeded == completed # Null /\ completed[1].outcome = "ok"
Resolved == started - Cardinality(InFlight)

\* C1: right after a fetch attempt fails, the stored snapshot is the one that
\* was stored when the attempt started, and the error slot holds a non-empty
\* message.
C1_FailureKeepsSnapshotOfStart ==
    Failed => /\ weather = completed[1].weatherAtStart
              /\ weatherError # Null
              /\ weatherError # <<"">>

\* C2: right after a fetch attempt succeeds, the stored snapshot is that
\* attempt's response and the error slot is null.
C2_SuccessStoresAndClearsError ==
    Succeeded => /\ weather = completed[1].response
                 /\ weatherError = Null

C4_NoAttemptPastDeadline ==
    \A id \in InFlight : time - attempts[id].startedAt <= TimeoutMs

\* C7: after teardown no clock tick replaces the stored instant and no new
\* fetch attempt starts; both intervals stay cancelled.
C7_TeardownCancelsIntervals ==
    [][phase = "torndown" =>
         /\ now' = now
         /\ started' = started
         /\ clockInterval' = Null
         /\ weatherInterval' = Null]_vars

\* Torn down, and since then a full refresh period (900 clock periods) has
\* passed without a tick.
C7_Witness ==
    /\ phase = "torndown"
    /\ time >= now + RefreshMs

(***************************************************************************)
(* Claims about WeatherSummary, under SpecSummary.                         *)
(***************************************************************************)
\* The 1-based positions of the current observation's timestamp in the
\* hourly series (none, or one: the hours of a series are distinct).
FoundAt(w) == {i \in 1..Len(w.hourly.time) : w.hourly.time[i] = w.current.time}

\* The hourly probabilities strictly after the current observation's entry.
LaterProbabilities(w) ==
    {w.hourly.precipitation_probability[j] :
        j \in {k \in 1..Len(w.hourly.time) : \E i \in FoundAt(w) : k > i}}

\* C5: the displayed precipitation probability is the maximum of the hourly
\* probabilities after the current observation's entry, and the current
\* observation's own probability when there is none (timestamp not found, or
\* found at the last entry).
C5_PrecipitationOfRestOfDay ==
    summary # Null =>
        LET w == weather[1]
        IN  summary[1].maxPrecipitation =
                IF LaterProbabilities(w) # {}
                THEN Max(LaterProbabilities(w))
                ELSE w.current.precipitation_probability

\* C6: the trend is rising exactly when the current timestamp is found at an
\* entry i of the hourly series, entry i+1 exists and its temperature is
\* strictly greater than the current temperature; it is falling otherwise.
C6_RisingIffNextHourWarmer ==
    summary # Null =>
        LET w == weather[1]
        IN  summary[1].isRising <=>
                \E i \in FoundAt(w) :
                    /\ i + 1 <= Len(w.hourly.temperature_2m)
                    /\ w.hourly.temperature_2m[i + 1] > w.current.temperature_2m

\* The spec's example: found at the first of two hours, the next hour warmer.
C6_Witness ==
    /\ summary # Null
    /\ weather[1].current.time = 1
    /\ weather[1].hourly.temperature_2m = <<60, 61>>
    /\ summary[1].isRising

(***************************************************************************)
(* Claims about NetworkIndicator, under SpecNetwork.                       *)
(***************************************************************************)
\* L is n/d rounded to the nearest integer, halves up (d > 0).
IsRounded(L, n, d) == 2 * d * L - d <= 2 * n /\ 2 * n < 2 * d * L + d

\* C8: cellularLevel is in 0..4; it is round(v/100*4) for a raw value v in
\* 0..100, round(((v+140)/96)*4) for v in -140..-44 (-44 gives 4, -140 gives
\* 0, -92 gives 2), 2 for any other value (500, -20), and 0 without a value.
C8_CellularLevel ==
    netView # Null =>
        LET sig == netInfo[1].signalStrength
            L == netView[1].cellLevel
        IN  /\ L \in 0..4
            /\ sig = Null => L = 0
            /\ sig # Null =>
                 LET v == sig[1]
                 IN  /\ (v >= 0 /\ v <= 100) => IsRounded(L, 4 * v, 100)
                     /\ (v >= -140 /\ v <= -44) => IsRounded(L, 4 * (v + 140), 96)
                     /\ (v < -140 \/ (v > -44 /\ v < 0) \/ v > 100) => L = 2
                     /\ v = -44 => L = 4
                     /\ v = -140 => L = 0
                     /\ v = -92 => L = 2
                     /\ v \in {500, -20} => L = 2

\* A dBm value on a rounding boundary: (-128+140)/96*4 is 0.5, one bar.
C8_Witness ==
    /\ netView # Null
    /\ netInfo[1].signalStrength = <<-128>>
    /\ netView[1].cellLevel = 1

\* A bar renders at full opacity exactly when the cellular radio is active
\* and the bar's index is below the level, at the dimmed opacity otherwise.
BarsAsClaimed(view) ==
    \A i \in 0..3 :
        view.bars[i] = IF view.cellActive /\ i < view.cellLevel
                       THEN FullOpacity ELSE DimOpacity

\* C9: wifiActive is true exactly when isConnected is true and the type is
\* wifi; cellularActive exactly when isConnected is true and the type is none
\* of wifi, unknown, none; and the bars are as claimed.
C9_ActiveIffIsConnected ==
    netView # Null =>
        LET net == netInfo[1]
            view == netView[1]
        IN  /\ view.wifiActive <=> (net.isConnected = <<TRUE>> /\ net.type = "wifi")
            /\ view.cellActive <=>
                 (net.isConnected = <<TRUE>> /\ net.type \notin {"wifi", "unknown", "none"})
            /\ BarsAsClaimed(view)

\* C9 as amended: connected means isConnected is true and isInternetReachable
\* is not false.
C9_ActiveIffConnectedAndReachable ==
    netView # Null =>
        LET net == netInfo[1]
            view == netView[1]
            connected == net.isConnected = <<TRUE>> /\ net.isInternetReachable # <<FALSE>>
        IN  /\ view.wifiActive <=> (connected /\ net.type = "wifi")
            /\ view.cellActive <=>
                 (connected /\ net.type \notin {"wifi", "unknown", "none"})
            /\ BarsAsClaimed(view)

\* A cellular observation with isConnected true and two bars of signal, but
\* the internet known to be unreachable: the radio is not active and every
\* bar is dimmed.
C9_Witness ==
    /\ netView # Null
    /\ netInfo[1].type = "cellular"
    /\ netInfo[1].isConnected = <<TRUE>>
    /\ netInfo[1].isInternetReachable = <<FALSE>>
    /\ netView[1].cellLevel = 2
    /\ ~netView[1].cellActive
    /\ \A i \in 0..3 : netView[1].bars[i] = DimOpacity

(***************************************************************************)
(* Claims about the battery header, under SpecBattery.                     *)
(***************************************************************************)
\* C10: with the level p in hundredths: absent state or p < 0 gives the
\* placeholder and fill width 0; 0 <= p <= 100 gives the text p% and the
\* fill width round(20 * p / 100); p > 100 gives fill width 20; the fill
\* width is always in 0..20.
C10_BatteryTextAndFill ==
    batteryView # Null =>
        LET fill == batteryView[1].fillPx
            text == batteryView[1].text
        IN  /\ fill \in 0..20
            /\ power = Null => (text = Placeholder /\ fill = 0)
            /\ power # Null =>
                 LET p == power[1].batteryLevel
                 IN  /\ p < 0 => (text = Placeholder /\ fill = 0)
                     /\ (p >= 0 /\ p <= 100) =>
                          /\ text = ToString(p) \o "%"
                          /\ IsRounded(fill, p, 5)
                     /\ p > 100 => fill = 20

\* The spec's example of a level above 1: 1.5 fills the whole width.
C10_Witness ==
    /\ batteryView # Null
    /\ power # Null
    /\ power[1].batteryLevel = 150
    /\ batteryView[1].fillPx = 20

(***************************************************************************)
(* Claims about the battery effect, under SpecLifecycle.                   *)
(***************************************************************************)
BatteryInitFinished == batteryInit \in {"done", "threw"}

\* C11: once teardown has run and initBattery has finished, no battery
\* listener is registered (so no later battery event reaches a callback that
\* writes the power slot).
C11_NoListenerAfterTeardown ==
    (phase = "torndown" /\ BatteryInitFinished) => listeners = {}

=============================================================================
